---- MODULE Spec2Model ----
(***************************************************************************)
(* The LogTable component of sleuth (renderer/components/logtable.tsx):    *)
(* its filter / search / sort pipeline and the lifecycle handlers that     *)
(* decide when the pipeline runs.                                          *)
(*                                                                         *)
(* Strings are sequences of one-character strings.  Array positions are    *)
(* 0-based values, as in the code; a TLA+ sequence holding an array keeps  *)
(* position p at index p + 1.                                              *)
(***************************************************************************)
EXTENDS Integers, Sequences, FiniteSets, TLC

VARIABLES
    props,      \* this.props of the LogTable
    state,      \* this.state of the LogTable
    sleuth,     \* the shared SleuthState object (props.state)
    mounted,    \* componentDidMount has run
    store,      \* the content of each log file's logEntries array
    stages,     \* the last handler's pipeline run: the handler's name and the
                \* stages sortFilterList executed; {} if it did not call it
    args,       \* arguments of a direct call of doSearchFilter / doSearchIndex
    ret,        \* results of those calls
    unzippedFiles,  \* this.state.unzippedFiles of the App
    opened,     \* sleuthState.opened
    pending,    \* the asynchronous operations of the App not yet completed
    channel,    \* 'file-dropped' messages sent to the renderer, not yet handled
    calls,      \* the urls openFile was called with, in order
    external    \* the hrefs handed to shell.openExternal

appVars == <<unzippedFiles, opened, pending, channel, calls, external>>

vars == <<props, state, sleuth, mounted, store, stages, args, ret, appVars>>

\* The App after its constructor, with no request made
AppConstructed ==
    /\ unzippedFiles = <<>>
    /\ opened = 0
    /\ pending = {}
    /\ channel = <<>>
    /\ calls = <<>>
    /\ external = {}

----------------------------------------------------------------------------
(* Bounds *)

MaxRecords == 2         \* longest record list handed to the search functions
MaxSearchLen == 4       \* longest enumerated search text
MaxSearchIndex == 1     \* largest value of the searchIndex prop

----------------------------------------------------------------------------
(* Strings and regular expressions *)

\* The characters of the enumerated search texts.  All of them are literal
\* characters of a JavaScript regular expression, so a pattern built from them
\* always compiles and tests for (case-insensitive) containment.
SearchAlphabet == {"a", "b", " ", "!"}

\* new RegExp(pattern, 'i') returns: the one metacharacter of the model is
\* "(", and a pattern with an unclosed group is a SyntaxError.
Compiles(pattern) == \A i \in 1..Len(pattern) : pattern[i] # "("

\* String.prototype.toLowerCase on one character (the 'i' flag of RegExp)
Lower(c) ==
    CASE c = "A" -> "a"
      [] c = "B" -> "b"
      [] OTHER -> c

LowerStr(s) == [i \in 1..Len(s) |-> Lower(s[i])]

\* new RegExp(pattern, 'i').test(message), pattern made of literal characters
RegExpTest(pattern, message) ==
    \E k \in 1..(Len(message) - Len(pattern) + 1) :
        SubSeq(LowerStr(message), k, k + Len(pattern) - 1) = LowerStr(pattern)

\* String.prototype.split(' ')
RECURSIVE Split(_)
Split(s) ==
    IF \A i \in 1..Len(s) : s[i] # " "
    THEN <<s>>
    ELSE LET i == CHOOSE j \in 1..Len(s) :
                      s[j] = " " /\ \A k \in 1..(j - 1) : s[k] # " "
         IN  <<SubSeq(s, 1, i - 1)>> \o Split(SubSeq(s, i + 1, Len(s)))

\* IsExclusion asking for two characters after the '!'
IsExclusion_LongerThanTwo(param) == Len(param) > 2 /\ param[1] = "!"

\* param.startsWith('!') && param.length > 1
IsExclusion(param) == Len(param) > 1 /\ param[1] = "!"

\* doSearchFilter and doSearchIndex throw: they build a RegExp from the whole
\* search text first and from the rest of every exclusion term in the loop,
\* and catch nothing.
RegExpThrows(search) ==
    \/ ~Compiles(search)
    \/ \E i \in 1..Len(Split(search)) :
           IsExclusion(Split(search)[i]) /\ ~Compiles(Tail(Split(search)[i]))

----------------------------------------------------------------------------
(* Search *)

\* The forEach loop of doSearchFilter: searchRegex is the one mutable regex
\* shared by doSearch and doExclude; only an exclusion term reassigns it.
RECURSIVE SearchFilterLoop(_, _, _, _)
SearchFilterLoop(search, searchParams, searchRegex, list) ==
    IF searchParams = <<>> THEN list
    ELSE LET param == Head(searchParams) IN
         IF IsExclusion(param)
         THEN LET re == Tail(param)
                  doExclude(a) == search = <<>> \/ ~RegExpTest(re, a.message)
              IN  SearchFilterLoop(search, Tail(searchParams), re,
                                   SelectSeq(list, doExclude))
         ELSE LET doSearch(a) == search = <<>> \/ RegExpTest(searchRegex, a.message)
              IN  SearchFilterLoop(search, Tail(searchParams), searchRegex,
                                   SelectSeq(list, doSearch))

doSearchFilter(search, list) ==
    SearchFilterLoop(search, Split(search), search, list)

\* list.forEach(f) with f pushing the 0-based position of each accepted entry
PushIndices(list, Accept(_)) ==
    LET positions == [i \in 1..Len(list) |-> i - 1]
        Pushed(p) == Accept(list[p + 1])
    IN  SelectSeq(positions, Pushed)

\* The forEach loop of doSearchIndex: every term walks the whole list and
\* pushes onto the one foundIndices array.
RECURSIVE SearchIndexLoop(_, _, _, _, _)
SearchIndexLoop(search, searchParams, searchRegex, list, foundIndices) ==
    IF searchParams = <<>> THEN foundIndices
    ELSE LET param == Head(searchParams) IN
         IF IsExclusion(param)
         THEN LET re == Tail(param)
                  doExclude(a) == search = <<>> \/ ~RegExpTest(re, a.message)
              IN  SearchIndexLoop(search, Tail(searchParams), re, list,
                                  foundIndices \o PushIndices(list, doExclude))
         ELSE LET doSearch(a) == search = <<>> \/ RegExpTest(searchRegex, a.message)
              IN  SearchIndexLoop(search, Tail(searchParams), searchRegex, list,
                                  foundIndices \o PushIndices(list, doSearch))

doSearchIndex(search, list) ==
    SearchIndexLoop(search, Split(search), search, list, <<>>)

----------------------------------------------------------------------------
(* Records and record sources *)

Levels == {"error", "info"}

\* Props and options hold a log file by reference; NoFile is an absent one.
NoFile == 0
FileIds == 1..3

\* The record stores of the model.  File 2 has the length and the logType of
\* file 1 but other entries; file 3 differs from both in length and logType.
LogFiles ==
    <<  [logType |-> "browser",
         logEntries |-> << [index |-> 0, level |-> "info",  message |-> <<"b">>],
                           [index |-> 1, level |-> "error", message |-> <<"a">>] >>],
        [logType |-> "browser",
         logEntries |-> << [index |-> 0, level |-> "error", message |-> <<"a", " ", "b">>],
                           [index |-> 1, level |-> "info",  message |-> <<"A">>] >>],
        [logType |-> "renderer",
         logEntries |-> << [index |-> 0, level |-> "info",  message |-> <<"B", "a">>] >>]
    >>

\* The logEntries arrays as the parser hands them over
InitialStore == [f \in FileIds |-> LogFiles[f].logEntries]

\* selectedEntry = null, selectedIndex = undefined
NoEntry == [index |-> -1, level |-> "", message |-> <<>>]
NoIndex == -1

SORT_TYPES == [ASC |-> "ASC", DESC |-> "DESC"]

\* The sortKey of the four header cells of renderTable
SortKeys == {"index", "timestamp", "level", "message"}

----------------------------------------------------------------------------
(* String comparison *)

\* Collation weight of a character's base letter: white space and punctuation
\* sort before letters, letters alphabetically whatever their case.
BaseWeight(c) ==
    CASE c = " " -> 1
      [] c = "!" -> 2
      [] Lower(c) = "a" -> 3
      [] Lower(c) = "b" -> 4
      [] Lower(c) = "c" -> 5
      [] Lower(c) = "f" -> 6
      [] Lower(c) = "o" -> 7
      [] OTHER -> 8

\* Case weight: a lower-case letter sorts before its upper-case form.
CaseWeight(c) == IF Lower(c) = c THEN 0 ELSE 1

RECURSIVE CompareWeights(_, _)
CompareWeights(u, v) ==
    IF u = <<>> /\ v = <<>> THEN 0
    ELSE IF u = <<>> THEN -1
    ELSE IF v = <<>> THEN 1
    ELSE IF Head(u) < Head(v) THEN -1
    ELSE IF Head(u) > Head(v) THEN 1
    ELSE CompareWeights(Tail(u), Tail(v))

\* String.prototype.localeCompare: base letters decide first, case only
\* between strings with the same base letters.
localeCompare(s, t) ==
    LET base == CompareWeights([i \in 1..Len(s) |-> BaseWeight(s[i])],
                               [i \in 1..Len(t) |-> BaseWeight(t[i])])
    IN  IF base # 0 THEN base
        ELSE CompareWeights([i \in 1..Len(s) |-> CaseWeight(s[i])],
                            [i \in 1..Len(t) |-> CaseWeight(t[i])])

\* localeCompare on the level names of the model: "error" before "info"
LevelWeight(level) == IF level = "error" THEN 1 ELSE 2

\* doSortByMessage with its operands exchanged
doSortByMessage_Exchanged(a, b) == localeCompare(b.message, a.message)

doSortByMessage(a, b) == localeCompare(a.message, b.message)

doSortByLevel(a, b) ==
    IF LevelWeight(a.level) < LevelWeight(b.level) THEN -1
    ELSE IF LevelWeight(a.level) > LevelWeight(b.level) THEN 1
    ELSE 0

\* Array.prototype.sort with doSortByMessage or doSortByLevel.  The sort is
\* stable (insertion sort), as the engine's is for the lists of the model.
RECURSIVE ArraySort(_, _)
ArraySort(list, sortBy) ==
    IF Len(list) <= 1 THEN list
    ELSE LET front == ArraySort(SubSeq(list, 1, Len(list) - 1), sortBy)
             last  == list[Len(list)]
             Cmp(a, b) == IF sortBy = "message" THEN doSortByMessage(a, b)
                          ELSE doSortByLevel(a, b)
             pos   == Cardinality({k \in 1..Len(front) : Cmp(front[k], last) <= 0})
         IN  SubSeq(front, 1, pos) \o <<last>> \o SubSeq(front, pos + 1, Len(front))

\* Array.prototype.reverse
Reverse(list) == [i \in 1..Len(list) |-> list[Len(list) + 1 - i]]

----------------------------------------------------------------------------
(* The pipeline *)

\* filter === undefined is the empty sequence, a given filter f is <<f>>;
\* the same for the other optional values of SortFilterListOptions.
NoOptions ==
    [logFile |-> NoFile, filter |-> <<>>, search |-> <<>>, sortBy |-> "",
     sortDirection |-> "", showOnlySearchResults |-> <<>>]

\* shouldFilter without the all-disabled case
shouldFilter_OnlyAllEnabled(filter) == ~(\A k \in DOMAIN filter : filter[k])

shouldFilter(filter) ==
    LET allEnabled  == \A k \in DOMAIN filter : filter[k]
        allDisabled == \A k \in DOMAIN filter : ~filter[k]
    IN  ~(allEnabled \/ allDisabled)

\* An array is its items and whether it is an array of its own (own) or the
\* logEntries array of the log file itself.
\* The array itself instead of a copy of it
concat_SameArray(array) == array

\* Array.prototype.concat(): a new array with the same items
concat(array) == [items |-> array.items, own |-> TRUE]

\* doFilter without the look-up of the level in the filter
doFilter_AnyLevel(filter, a) == a.level # ""

\* doFilter of sortFilterList
doFilter(filter, a) == a.level # "" /\ a.level \in DOMAIN filter /\ filter[a.level]

\* sortFilterList.  It returns the list and, for the claims, the stages it
\* went through: stage "throw" stands for the exception of doSearchFilter
\* leaving the function, and then there is no list; "shared" says that the
\* list returned is the log file's own logEntries array.  file and entries
\* are the log file read and the content of its logEntries array afterwards:
\* sort and reverse work in place on the array they are called on.
runSortFilterList(options) ==
    LET logFile == IF options.logFile # NoFile THEN options.logFile ELSE props.logFile
        filter  == IF options.filter # <<>> THEN options.filter[1] ELSE props.levelFilter
        search  == IF options.search # <<>> THEN options.search[1] ELSE props.search
        sortBy  == IF options.sortBy # "" THEN options.sortBy ELSE state.sortBy
        showOnlySearchResults ==
            IF options.showOnlySearchResults # <<>>
            THEN options.showOnlySearchResults[1] ELSE props.showOnlySearchResults
        sortDirection ==
            IF options.sortDirection # "" THEN options.sortDirection
            ELSE state.sortDirection
        doFilterStage == shouldFilter(filter)
        noSort == (sortBy = "" \/ sortBy = "index")
                  /\ (sortDirection = "" \/ sortDirection = SORT_TYPES.ASC)
        logEntries == store[logFile]
        copy == concat([items |-> logEntries, own |-> FALSE])
        Passes(a) == doFilter(filter, a)
        filtered == IF doFilterStage
                    THEN [items |-> SelectSeq(copy.items, Passes), own |-> TRUE]
                    ELSE copy
        doSearchStage == search # <<>> /\ showOnlySearchResults
        searched == IF doSearchStage
                    THEN [items |-> doSearchFilter(search, filtered.items), own |-> TRUE]
                    ELSE filtered
        doSortStage == sortBy \in {"message", "level"}
        sorted == IF doSortStage
                  THEN [searched EXCEPT !.items = ArraySort(@, sortBy)]
                  ELSE searched
        doReverse == sortDirection = SORT_TYPES.DESC
        reversed == IF doReverse THEN [sorted EXCEPT !.items = Reverse(@)]
                    ELSE sorted
    IN  IF logFile = NoFile
        THEN [list |-> <<>>, stages |-> {"start"}, file |-> NoFile, entries |-> <<>>]
        ELSE IF noSort /\ ~doFilterStage /\ search = <<>>
        THEN [list |-> logEntries, stages |-> {"start", "shared"},
              file |-> logFile, entries |-> logEntries]
        ELSE IF doSearchStage /\ RegExpThrows(search)
        THEN [list |-> <<>>,
              stages |-> {"start", "copy", "throw"}
                         \cup (IF doFilterStage THEN {"filter"} ELSE {}),
              file |-> logFile, entries |-> logEntries]
        ELSE [list |-> reversed.items,
              stages |-> {"start", "copy"}
                         \cup (IF doFilterStage THEN {"filter"} ELSE {})
                         \cup (IF doSearchStage THEN {"search"} ELSE {})
                         \cup (IF doSortStage THEN {"sort"} ELSE {})
                         \cup (IF doReverse THEN {"reverse"} ELSE {})
                         \cup (IF reversed.own THEN {} ELSE {"shared"}),
              file |-> logFile,
              entries |-> IF reversed.own THEN logEntries ELSE reversed.items]

\* The logEntries arrays after a call of sortFilterList
storeAfter(run) ==
    IF run.file = NoFile THEN store ELSE [store EXCEPT ![run.file] = run.entries]

sortFilterList(options) == runSortFilterList(options).list

----------------------------------------------------------------------------
(* The component *)

\* The level filters of the model: all enabled, all disabled, errors only
LevelFilters ==
    { [error |-> TRUE, info |-> TRUE], [error |-> FALSE, info |-> FALSE],
      [error |-> TRUE, info |-> FALSE] }

\* The search texts the parent passes as the search prop
PropSearchTexts == { <<>>, <<"a">>, <<"!", "a">> }

\* The search texts the user can type next: those, and an unclosed group
TypedSearchTexts == PropSearchTexts \cup { <<"(">> }

PropsSet ==
    [logFile : {NoFile} \cup FileIds,
     levelFilter : LevelFilters,
     search : PropSearchTexts,
     showOnlySearchResults : BOOLEAN,
     searchIndex : 0..MaxSearchIndex]

\* Value-by-value comparison of two level filters
didFilterChange(oldFilter, newFilter) ==
    \E key \in DOMAIN oldFilter : oldFilter[key] # newFilter[key]

\* The constructor's this.state
InitialState ==
    [sortedList |-> <<>>, sortBy |-> "index", sortDirection |-> "ASC",
     searchList |-> <<>>, ignoreSearchIndex |-> FALSE, selectedIndex |-> NoIndex]

NoCall == [search |-> <<>>, list |-> <<>>]
NoRet == [filtered |-> <<>>, indices |-> <<>>, called |-> {}, threw |-> {}]

Init ==
    /\ props \in PropsSet
    /\ state = InitialState
    /\ sleuth = [selectedEntry |-> NoEntry, isDetailsVisible |-> FALSE]
    /\ mounted = FALSE
    /\ store = InitialStore
    /\ stages = {}
    /\ args = NoCall
    /\ ret = NoRet
    /\ AppConstructed

\* An exception has left a handler: React takes the component down, and it
\* handles no further event.
Crashed == "throw" \in stages

componentDidMount ==
    /\ ~mounted
    /\ mounted' = TRUE
    /\ LET run == runSortFilterList(NoOptions)
       IN  /\ state' = IF "throw" \in run.stages THEN state
                       ELSE [state EXCEPT !.sortedList = run.list]
           /\ stages' = run.stages \cup {"componentDidMount"}
           /\ store' = storeAfter(run)
    /\ UNCHANGED <<props, sleuth, args, ret, appVars>>

\* searchChanged without the comparison of showOnlySearchResults
searchChanged_TextOnly(nextProps) == props.search # nextProps.search

\* Lines 128-132 of componentWillReceiveProps
searchChanged(nextProps) ==
    \/ props.search # nextProps.search
    \/ props.showOnlySearchResults # nextProps.showOnlySearchResults

\* fileChanged without the length and logType comparisons
fileChanged_AnyFile(logFile, nextFile) == nextFile # NoFile

fileChanged(logFile, nextFile) ==
    \/ logFile = NoFile /\ nextFile # NoFile
    \/ /\ logFile # NoFile /\ nextFile # NoFile
       /\ Len(store[logFile]) # Len(store[nextFile])
    \/ /\ logFile # NoFile /\ nextFile # NoFile
       /\ LogFiles[logFile].logType # LogFiles[nextFile].logType

\* The reset of ignoreSearchIndex moved into the recompute branch
searchIndexChanged_OrFilter(nextProps) ==
    \/ props.searchIndex # nextProps.searchIndex
    \/ props.levelFilter # nextProps.levelFilter

\* Line 158: the condition under which ignoreSearchIndex is set back to false
searchIndexChanged(nextProps) == props.searchIndex # nextProps.searchIndex

componentWillReceiveProps(nextProps) ==
    LET nextFile == nextProps.logFile
        nextLevelFilter == nextProps.levelFilter
        filterChanged == didFilterChange(props.levelFilter, nextLevelFilter)
        nextSearch == nextProps.search
        sortOptions == [NoOptions EXCEPT
                          !.showOnlySearchResults = <<nextProps.showOnlySearchResults>>,
                          !.filter = <<nextLevelFilter>>,
                          !.search = <<nextSearch>>,
                          !.logFile = nextFile]
        run == runSortFilterList(sortOptions)
        sortedList == run.list
        makeSearchList == ~nextProps.showOnlySearchResults /\ nextSearch # <<>>
        searchList == IF makeSearchList
                      THEN doSearchIndex(nextSearch, sortedList)
                      ELSE <<>>
        recompute == filterChanged \/ searchChanged(nextProps)
                     \/ fileChanged(props.logFile, nextFile)
        threw == recompute /\ ( \/ "throw" \in run.stages
                                \/ makeSearchList /\ RegExpThrows(nextSearch) )
        afterPipeline == IF recompute
                         THEN [state EXCEPT !.sortedList = sortedList,
                                            !.searchList = searchList]
                         ELSE state
    IN  /\ mounted /\ ~Crashed
        /\ IF threw
           THEN /\ stages' = run.stages \cup {"componentWillReceiveProps", "throw"}
                /\ UNCHANGED <<props, state>>
           ELSE /\ state' = IF searchIndexChanged(nextProps)
                            THEN [afterPipeline EXCEPT !.ignoreSearchIndex = FALSE]
                            ELSE afterPipeline
                /\ stages' = IF recompute
                             THEN run.stages \cup {"componentWillReceiveProps"}
                             ELSE {}
                /\ props' = nextProps
        /\ store' = IF recompute THEN storeAfter(run) ELSE store
        /\ UNCHANGED <<sleuth, mounted, args, ret, appVars>>

onRowClick(index) ==
    /\ mounted /\ ~Crashed
    /\ sleuth' = [selectedEntry |-> IF index < Len(state.sortedList)
                                    THEN state.sortedList[index + 1] ELSE NoEntry,
                  isDetailsVisible |-> TRUE]
    /\ state' = [state EXCEPT !.selectedIndex = index, !.ignoreSearchIndex = TRUE]
    /\ stages' = {}
    /\ UNCHANGED <<props, mounted, store, args, ret, appVars>>

\* onSortChange without its change check
newSort_Always(sortBy, sortDirection) == TRUE

\* Line 192 of onSortChange
newSort(sortBy, sortDirection) ==
    state.sortBy # sortBy \/ state.sortDirection # sortDirection

onSortChange(sortBy, sortDirection) ==
    LET options == [NoOptions EXCEPT !.sortBy = sortBy, !.sortDirection = sortDirection]
        run == runSortFilterList(options)
    IN  /\ mounted /\ ~Crashed
        /\ state' = IF newSort(sortBy, sortDirection) /\ "throw" \notin run.stages
                    THEN [state EXCEPT !.sortBy = sortBy,
                                       !.sortDirection = sortDirection,
                                       !.sortedList = run.list]
                    ELSE state
        /\ stages' = IF newSort(sortBy, sortDirection)
                     THEN run.stages \cup {"onSortChange"} ELSE {}
        /\ store' = IF newSort(sortBy, sortDirection) THEN storeAfter(run) ELSE store
        /\ UNCHANGED <<props, sleuth, mounted, args, ret, appVars>>

\* LogTableHeaderCell
reverseSortDirection(sortDirection) ==
    IF sortDirection = SORT_TYPES.DESC THEN SORT_TYPES.ASC ELSE SORT_TYPES.DESC

\* A click on the header cell of column sortKey
HeaderCellClick(sortKey) ==
    onSortChange(sortKey, IF state.sortDirection # ""
                          THEN reverseSortDirection(state.sortDirection)
                          ELSE SORT_TYPES.DESC)

\* rowClassNameGetter marking the cursor's row while ignoreSearchIndex is set
rowClassNameGetter_IgnoresSuspension(rowIndex) ==
    LET isSearchIndex == /\ props.searchIndex < Len(state.searchList)
                         /\ rowIndex = state.searchList[props.searchIndex + 1]
    IN  IF isSearchIndex \/ state.selectedIndex = rowIndex THEN "ActiveRow"
        ELSE IF \E i \in 1..Len(state.searchList) : state.searchList[i] = rowIndex
        THEN "HighlightRow"
        ELSE ""

\* The className of a row of the table
rowClassNameGetter(rowIndex) ==
    LET isSearchIndex == /\ ~state.ignoreSearchIndex
                         /\ props.searchIndex < Len(state.searchList)
                         /\ rowIndex = state.searchList[props.searchIndex + 1]
    IN  IF isSearchIndex \/ state.selectedIndex = rowIndex THEN "ActiveRow"
        ELSE IF \E i \in 1..Len(state.searchList) : state.searchList[i] = rowIndex
        THEN "HighlightRow"
        ELSE ""

\* The props of a re-render of the parent: at most one of the source, the
\* level filter, the search text, the toggle and the search cursor differs
\* from the current props.
NextPropsSet ==
    { [props EXCEPT !.logFile = f] : f \in {NoFile} \cup FileIds }
    \cup { [props EXCEPT !.levelFilter = f] : f \in LevelFilters }
    \cup { [props EXCEPT !.search = t] : t \in TypedSearchTexts }
    \cup { [props EXCEPT !.showOnlySearchResults = b] : b \in BOOLEAN }
    \cup { [props EXCEPT !.searchIndex = i] : i \in 0..MaxSearchIndex }

ReceiveProps == \E nextProps \in NextPropsSet : componentWillReceiveProps(nextProps)
RowClick == \E index \in 0..(Len(state.sortedList) - 1) : onRowClick(index)
SortChange == \E sortBy \in SortKeys, sortDirection \in {"ASC", "DESC"} :
                  onSortChange(sortBy, sortDirection)
HeaderClick == \E sortKey \in SortKeys : HeaderCellClick(sortKey)

Next ==
    \/ componentDidMount
    \/ ReceiveProps
    \/ RowClick
    \/ SortChange
    \/ HeaderClick

Spec == Init /\ [][Next]_vars

----------------------------------------------------------------------------
(* Direct calls of the two search functions *)

RECURSIVE SeqsUpTo(_, _)
SeqsUpTo(S, n) ==
    IF n = 0 THEN {<<>>}
    ELSE LET shorter == SeqsUpTo(S, n - 1)
         IN  shorter \cup { Append(q, x) : q \in shorter, x \in S }

\* The messages of the enumerated record lists
SearchMessages == { <<"a">>, <<"b">>, <<"b", " ", "a">>, <<"A", " ", "b">> }

\* A record list with the given messages, indexed in load order
RecordsOf(messages) ==
    [i \in 1..Len(messages) |->
        [index |-> i - 1, level |-> "info", message |-> messages[i]]]

\* R = ["foo bar", "foo", "bar"], S = "foo !bar"
ScenarioRecords ==
    RecordsOf(<< <<"f", "o", "o", " ", "b", "a", "r">>, <<"f", "o", "o">>,
                 <<"b", "a", "r">> >>)
ScenarioSearch == <<"f", "o", "o", " ", "!", "b", "a", "r">>

\* Search texts with an unclosed group, as a whole and in an exclusion term
MalformedSearchTexts == { <<"(">>, <<"!", "(">>, <<"a", " ", "!", "(">> }

CallSet ==
    { [search |-> t, list |-> RecordsOf(m)] :
        t \in SeqsUpTo(SearchAlphabet, MaxSearchLen) \cup MalformedSearchTexts,
        m \in SeqsUpTo(SearchMessages, MaxRecords) }
    \cup { [search |-> ScenarioSearch, list |-> ScenarioRecords] }

InitSearch ==
    /\ args \in CallSet
    /\ ret = NoRet
    /\ props = [logFile |-> NoFile, levelFilter |-> [error |-> TRUE, info |-> TRUE],
                search |-> <<>>, showOnlySearchResults |-> FALSE, searchIndex |-> 0]
    /\ state = InitialState
    /\ sleuth = [selectedEntry |-> NoEntry, isDetailsVisible |-> FALSE]
    /\ mounted = FALSE
    /\ store = InitialStore
    /\ stages = {}
    /\ AppConstructed

CallDoSearchFilter ==
    /\ "filter" \notin ret.called
    /\ ret' = IF RegExpThrows(args.search)
              THEN [ret EXCEPT !.called = @ \cup {"filter"},
                               !.threw = @ \cup {"filter"}]
              ELSE [ret EXCEPT !.filtered = doSearchFilter(args.search, args.list),
                               !.called = @ \cup {"filter"}]
    /\ UNCHANGED <<props, state, sleuth, mounted, store, stages, args, appVars>>

CallDoSearchIndex ==
    /\ "index" \notin ret.called
    /\ ret' = IF RegExpThrows(args.search)
              THEN [ret EXCEPT !.called = @ \cup {"index"},
                               !.threw = @ \cup {"index"}]
              ELSE [ret EXCEPT !.indices = doSearchIndex(args.search, args.list),
                               !.called = @ \cup {"index"}]
    /\ UNCHANGED <<props, state, sleuth, mounted, store, stages, args, appVars>>

NextSearch ==
    \/ CallDoSearchFilter
    \/ CallDoSearchIndex

SpecSearch == InitSearch /\ [][NextSearch]_vars

----------------------------------------------------------------------------
(* The pipeline on enumerated record stores *)

\* The messages of the enumerated record stores
PipelineMessages == { <<"a">>, <<"b">>, <<"B">> }

\* A record store with the given levels and messages, indexed in load order
EntriesOf(kinds) ==
    [i \in 1..Len(kinds) |->
        [index |-> i - 1, level |-> kinds[i].level, message |-> kinds[i].message]]

\* R with messages ["b", "a", "c"]
SortScenarioEntries == RecordsOf(<< <<"b">>, <<"a">>, <<"c">> >>)

PipelineStores ==
    { EntriesOf(kinds) :
        kinds \in SeqsUpTo([level : Levels, message : PipelineMessages], MaxRecords) }
    \cup { SortScenarioEntries }

\* Every level filter over the levels
AllLevelFilters == [Levels -> BOOLEAN]

\* The component is constructed over file 1 with any of the record stores
InitPipeline ==
    /\ store \in { [InitialStore EXCEPT ![1] = R] : R \in PipelineStores }
    /\ props \in [logFile : {1},
                  levelFilter : AllLevelFilters,
                  search : PropSearchTexts,
                  showOnlySearchResults : BOOLEAN,
                  searchIndex : {0}]
    /\ state = InitialState
    /\ sleuth = [selectedEntry |-> NoEntry, isDetailsVisible |-> FALSE]
    /\ mounted = FALSE
    /\ stages = {}
    /\ args = NoCall
    /\ ret = NoRet
    /\ AppConstructed

NextPipeline ==
    \/ componentDidMount
    \/ SortChange

SpecPipeline == InitPipeline /\ [][NextPipeline]_vars

----------------------------------------------------------------------------
(* The App and the IpcManager *)

\* Bound on the urls that reach openFile or wait in the channel
MaxCalls == 2

\* A url is a sequence of pieces such as "file:///", "a", "%20", ".zip".
\* url.startsWith('file:///')
startsWithFile(url) == url # <<>> /\ url[1] = "file:///"

\* url.replace('file:///', '/'): the first occurrence only
replaceFile(url) ==
    IF \E i \in 1..Len(url) : url[i] = "file:///"
    THEN LET first == CHOOSE i \in 1..Len(url) :
                          /\ url[i] = "file:///"
                          /\ \A k \in 1..(i - 1) : url[k] # "file:///"
         IN  [url EXCEPT ![first] = "/"]
    ELSE url

decodeURIComponent(url) ==
    [i \in 1..Len(url) |-> IF url[i] = "%20" THEN " " ELSE url[i]]

\* /[\s\S]*\.zip$/.test(url)
isZipFile(url) == url # <<>> /\ url[Len(url)] = ".zip"

\* The disk: two archives, a directory and a plain file
ZipA == <<"/", "a", ".zip">>
ZipB == <<"/", "b", ".zip">>
LogsDirectory == <<"/", "my", " ", "logs">>
PlainFile == <<"/", "notes">>
ExternalLink == <<"https://", "slack.com">>

\* fs.readdir(url)
readdir(url) == IF url = LogsDirectory THEN <<".DS_Store", "renderer.log">> ELSE <<>>

shouldIgnoreFile(fileName) == fileName = ".DS_Store"

\* The loop of openDirectory over the directory's file names
directoryFiles(url) ==
    LET kept(fileName) == ~shouldIgnoreFile(fileName)
        names == SelectSeq(readdir(url), kept)
    IN  [i \in 1..Len(names) |->
            [fileName |-> names[i], fullPath |-> url \o <<"/", names[i]>>]]

\* What unzipper.unzip() resolves with
unzip(url) ==
    IF url = ZipA
    THEN << [fileName |-> "browser.log", fullPath |-> <<"tmp", "/", "browser.log">>] >>
    ELSE << [fileName |-> "webapp.log", fullPath |-> <<"tmp", "/", "webapp.log">>] >>

\* fs.stat and unzipper.open resolve for what is on the disk and reject otherwise
stats(url) ==
    IF url = LogsDirectory THEN "directory"
    ELSE IF url \in {ZipA, ZipB, PlainFile} THEN "file"
    ELSE "rejected"

\* The paths of a drop onto document.body, and the urls of a navigation
DroppedPaths == {ZipA, ZipB, LogsDirectory, PlainFile}
NavigatedUrls ==
    { <<"file:///", "a", ".zip">>, <<"file:///", "my", "%20", "logs">>, ExternalLink }

\* resetState() of state/sleuth
resetState == [selectedEntry |-> NoEntry, isDetailsVisible |-> FALSE]

\* The shared state after App.reset
sleuthAfterReset == IF opened > 0 THEN resetState ELSE sleuth

\* App.openFile: reset, then openZip or fs.stat(url)
openFile(url) ==
    /\ unzippedFiles' = <<>>
    /\ sleuth' = sleuthAfterReset
    /\ opened' = opened + 1
    /\ calls' = Append(calls, url)
    /\ pending' = pending \cup
          { [kind |-> IF isZipFile(url) THEN "unzip" ELSE "stat",
             url |-> url, call |-> Len(calls) + 1] }

\* document.body.ondrop
OnDrop(path) ==
    /\ Len(calls) + Len(channel) < MaxCalls
    /\ openFile(replaceFile(path))
    /\ UNCHANGED <<props, state, mounted, store, stages, args, ret, channel, external>>

\* The 'will-navigate' handler of IpcManager.setupFileDrop.  hasTarget says
\* whether the event object carries a target: reading target.href of an
\* event without one throws, and the handler is left before it sends.
WillNavigate(url, hasTarget) ==
    /\ Len(calls) + Len(channel) < MaxCalls
    /\ IF ~startsWithFile(url) /\ ~hasTarget
       THEN UNCHANGED <<channel, external>>
       ELSE /\ external' = IF ~startsWithFile(url) THEN external \cup {url}
                           ELSE external
            /\ channel' = Append(channel,
                                 [url |-> decodeURIComponent(replaceFile(url)),
                                  navigated |-> url])
    /\ UNCHANGED <<props, state, sleuth, mounted, store, stages, args, ret,
                   unzippedFiles, opened, pending, calls>>

\* ipcRenderer.on('file-dropped')
FileDropped ==
    /\ channel # <<>>
    /\ openFile(Head(channel).url)
    /\ channel' = Tail(channel)
    /\ UNCHANGED <<props, state, mounted, store, stages, args, ret, external>>

\* unzipper.open().then(unzip).then(setState)
UnzipDone(task) ==
    /\ task \in pending /\ task.kind = "unzip"
    /\ pending' = pending \ {task}
    /\ unzippedFiles' = IF stats(task.url) = "file" THEN unzip(task.url)
                        ELSE unzippedFiles
    /\ UNCHANGED <<props, state, sleuth, mounted, store, stages, args, ret,
                   opened, channel, calls, external>>

\* fs.stat(url).then: openDirectory for a directory, up to its await
StatDone(task) ==
    /\ task \in pending /\ task.kind = "stat"
    /\ IF stats(task.url) = "directory"
       THEN /\ unzippedFiles' = <<>>
            /\ sleuth' = sleuthAfterReset
            /\ opened' = opened + 1
            /\ pending' = (pending \ {task}) \cup {[task EXCEPT !.kind = "readdir"]}
       ELSE /\ pending' = pending \ {task}
            /\ UNCHANGED <<unzippedFiles, sleuth, opened>>
    /\ UNCHANGED <<props, state, mounted, store, stages, args, ret,
                   channel, calls, external>>

\* openDirectory after await fs.readdir(url)
ReaddirDone(task) ==
    /\ task \in pending /\ task.kind = "readdir"
    /\ pending' = pending \ {task}
    /\ unzippedFiles' = directoryFiles(task.url)
    /\ UNCHANGED <<props, state, sleuth, mounted, store, stages, args, ret,
                   opened, channel, calls, external>>

Drop == \E path \in DroppedPaths : OnDrop(path)
Navigate == \E url \in NavigatedUrls, hasTarget \in BOOLEAN : WillNavigate(url, hasTarget)
Unzipped == \E task \in pending : UnzipDone(task)
Statted == \E task \in pending : StatDone(task)
DirectoryRead == \E task \in pending : ReaddirDone(task)

\* The App with a log table of file 1 inside
InitApp ==
    /\ AppConstructed
    /\ props = [logFile |-> 1, levelFilter |-> [error |-> TRUE, info |-> TRUE],
                search |-> <<>>, showOnlySearchResults |-> FALSE, searchIndex |-> 0]
    /\ state = InitialState
    /\ sleuth = [selectedEntry |-> NoEntry, isDetailsVisible |-> FALSE]
    /\ mounted = FALSE
    /\ store = InitialStore
    /\ stages = {}
    /\ args = NoCall
    /\ ret = NoRet

NextApp ==
    \/ Drop
    \/ Navigate
    \/ FileDropped
    \/ Unzipped
    \/ Statted
    \/ DirectoryRead
    \/ componentDidMount
    \/ RowClick

SpecApp == InitApp /\ [][NextApp]_vars

----------------------------------------------------------------------------
(* What a search text asks for *)

\* The record's message matches every inclusion term and no exclusion term
\* of the search text, each term tested on its own text.
MatchesEveryTerm(search, a) ==
    LET terms == Split(search)
    IN  \A i \in 1..Len(terms) :
            IF IsExclusion(terms[i])
            THEN ~RegExpTest(Tail(terms[i]), a.message)
            ELSE RegExpTest(terms[i], a.message)

\* The 0-based positions of list whose entry satisfies Accept, ascending
PositionsWhere(list, Accept(_)) ==
    LET positions == [i \in 1..Len(list) |-> i - 1]
        Holds(p) == Accept(list[p + 1])
    IN  SelectSeq(positions, Holds)

----------------------------------------------------------------------------
(* Claims *)

\* C1: doSearchFilter keeps a record if and only if its message matches every
\* inclusion term and no exclusion term of the search text, each term tested
\* on its own text; for ["foo bar", "foo", "bar"] and "foo !bar" the result is
\* exactly the record "foo".
C1_FilterMatchesEveryTerm ==
    ("filter" \in ret.called /\ ret.threw = {}) =>
        LET Wanted(a) == MatchesEveryTerm(args.search, a)
        IN  /\ ret.filtered = SelectSeq(args.list, Wanted)
            /\ (args.search = ScenarioSearch /\ args.list = ScenarioRecords
                    => ret.filtered = <<ScenarioRecords[2]>>)

\* C2: doSearchIndex returns exactly the strictly ascending, duplicate-free
\* list of the positions whose record doSearchFilter keeps.
C2_IndexAgreesWithFilter ==
    (ret.called = {"filter", "index"} /\ ret.threw = {}) =>
        LET Kept(a) == doSearchFilter(args.search, <<a>>) # <<>>
        IN  /\ ret.indices = PositionsWhere(args.list, Kept)
            /\ Len(ret.filtered) = Len(ret.indices)
            /\ \A i \in 1..Len(ret.indices) :
                   args.list[ret.indices[i] + 1] = ret.filtered[i]

\* C11: a search text that does not compile as a regular expression, as a
\* whole or as a term after its leading '!', raises no error: doSearchFilter
\* and doSearchIndex return a result for it.
C11_MalformedSearchDoesNotThrow ==
    ret.threw = {}

\* The search text is one term "!x" with x not empty
IsSingleExclusionText(search) ==
    /\ Len(search) > 1
    /\ search[1] = "!"
    /\ \A i \in 1..Len(search) : search[i] # " "

\* The list kept for "!x" and the list kept for "x" are disjoint and together
\* hold every record of the list
ComplementOfInclusion ==
    LET kept == doSearchFilter(Tail(args.search), args.list)
    IN  \A i \in 1..Len(args.list) :
            (\E j \in 1..Len(ret.filtered) : ret.filtered[j] = args.list[i])
            <=> ~(\E j \in 1..Len(kept) : kept[j] = args.list[i])

\* C16: for every record list and every single-term search text "!x" with x
\* not empty, doSearchFilter keeps for "!x" exactly the records it does not
\* keep for "x".
C16_ExclusionIsComplement ==
    ( /\ "filter" \in ret.called
      /\ ret.threw = {}
      /\ IsSingleExclusionText(args.search) )
    => ComplementOfInclusion

\* C16, amended: that holds when x is not itself an exclusion term; for
\* x = "!y" the text "!!y" excludes the records matching "!y", and "!y"
\* excludes those matching "y".
C16_ExclusionIsComplementOfInclusion ==
    ( /\ "filter" \in ret.called
      /\ ret.threw = {}
      /\ IsSingleExclusionText(args.search)
      /\ ~IsExclusion(Tail(args.search)) )
    => ComplementOfInclusion

C16_Witness ==
    /\ "filter" \in ret.called
    /\ args.search = <<"!", "a">>
    /\ Len(args.list) = 2
    /\ args.list[1].message = <<"b">>
    /\ args.list[2].message = <<"A", " ", "b">>
    /\ ret.filtered = <<args.list[1]>>

----------------------------------------------------------------------------
(* Claims about the component *)

\* A non-empty search text that is one inclusion term
IsSingleInclusionTerm(search) ==
    search # <<>> /\ Len(Split(search)) = 1 /\ ~IsExclusion(search)

\* C3: while the search text is a non-empty single inclusion term and
\* showOnlySearchResults is false, searchList is exactly the list of the
\* positions of the current sortedList whose message matches the term.
C3_MatchListFollowsDisplay ==
    (mounted /\ IsSingleInclusionTerm(props.search) /\ ~props.showOnlySearchResults) =>
        LET Matches(a) == RegExpTest(props.search, a.message)
        IN  state.searchList = PositionsWhere(state.sortedList, Matches)

\* C4: a props update that replaces the record source by another one runs the
\* pipeline, and sortedList then holds records of the new source only.
C4_SourceChangeRecomputes ==
    [][ (mounted /\ props'.logFile # props.logFile /\ props'.logFile # NoFile) =>
            /\ stages' # {}
            /\ \A i \in 1..Len(state'.sortedList) :
                   \E j \in 1..Len(LogFiles[props'.logFile].logEntries) :
                       LogFiles[props'.logFile].logEntries[j] = state'.sortedList[i]
      ]_vars

\* The step left the pipeline alone and both lists as they were
PipelineIdle ==
    /\ stages' = {}
    /\ state'.sortedList = state.sortedList
    /\ state'.searchList = state.searchList

\* C5: a props update with the same source, level filter, search text and
\* showOnlySearchResults, or an onSortChange call with the current sortBy and
\* sortDirection, does not run the pipeline and leaves both lists unchanged.
C5_SameParametersNoRerun ==
    [][ ( \/ \E i \in 0..MaxSearchIndex :
                 componentWillReceiveProps([props EXCEPT !.searchIndex = i])
          \/ onSortChange(state.sortBy, state.sortDirection) )
        => PipelineIdle ]_vars

\* The last handler was one that did not run the pipeline, no row was ever
\* clicked, and the lists on display are a sorted, searched view.
C5_Witness ==
    /\ mounted /\ stages = {}
    /\ state.selectedIndex = NoIndex
    /\ state.sortBy = "message" /\ state.sortDirection = "DESC"
    /\ Len(state.sortedList) = 2 /\ state.searchList # <<>>

\* C6: a row click, or a props update that only moves the search cursor, never
\* runs the pipeline and leaves both lists unchanged.
C6_SelectionAndCursorNoRerun ==
    [][ ( \/ \E index \in 0..(Len(state.sortedList) - 1) : onRowClick(index)
          \/ \E i \in 0..MaxSearchIndex :
                 /\ i # props.searchIndex
                 /\ componentWillReceiveProps([props EXCEPT !.searchIndex = i]) )
        => PipelineIdle ]_vars

\* A row is selected, the cursor has moved, and the last handler left the
\* filtered view and its match list alone.
C6_Witness ==
    /\ mounted /\ stages = {}
    /\ state.selectedIndex = 1 /\ state.ignoreSearchIndex
    /\ props.searchIndex # 0
    /\ shouldFilter(props.levelFilter)
    /\ state.searchList # <<>>

\* A step of onSortChange that changed the sort key or the direction
SortAloneStep ==
    /\ mounted
    /\ props' = props
    /\ state'.sortBy # state.sortBy \/ state'.sortDirection # state.sortDirection

\* C7 as stated: when only the sort key or direction changes, the Filter and
\* Search stages are not rerun.
C7_SortAloneSkipsFilterAndSearch ==
    [][ SortAloneStep => stages' \cap {"filter", "search"} = {} ]_vars

\* The level filter tells some levels apart
Discriminates(filter) == \E k1, k2 \in DOMAIN filter : filter[k1] # filter[k2]

\* The records of the current source that pass the level filter and, when
\* only matches are shown, the search, in source order
DisplayBase ==
    LET Passes(a) ==
            /\ Discriminates(props.levelFilter) => props.levelFilter[a.level]
            /\ (props.showOnlySearchResults /\ props.search # <<>>)
                   => doSearchFilter(props.search, <<a>>) # <<>>
    IN  IF props.logFile = NoFile THEN <<>>
        ELSE SelectSeq(LogFiles[props.logFile].logEntries, Passes)

\* C7 as amended: when only the sort key or direction changes, the whole
\* pipeline runs again on the current source: Filter (if the level filter
\* discriminates) and Search (if only matches are shown) are rerun, and the
\* new sortedList is their result sorted by the new key and reversed if the
\* new direction is descending.
C7_SortAloneRerunsPipeline ==
    [][ SortAloneStep =>
            LET keyed == IF state'.sortBy \in {"message", "level"}
                         THEN ArraySort(DisplayBase, state'.sortBy) ELSE DisplayBase
            IN  /\ state'.sortedList = IF state'.sortDirection = "DESC"
                                       THEN Reverse(keyed) ELSE keyed
                /\ "onSortChange" \in stages'
                /\ (props.logFile # NoFile /\ Discriminates(props.levelFilter))
                       => "filter" \in stages'
                /\ (props.logFile # NoFile /\ props.showOnlySearchResults
                        /\ props.search # <<>>)
                       => "search" \in stages'
      ]_vars

\* onSortChange has just rerun the Filter and Search stages while sorting
C7_Witness ==
    /\ {"onSortChange", "filter", "search", "sort", "reverse"} \subseteq stages
    /\ state.sortedList # <<>>

\* C8: whenever the search text changes, ignoreSearchIndex is false in the
\* resulting state.
C8_SearchChangeReenablesAutoScroll ==
    [][ (mounted /\ props'.search # props.search) => ~state'.ignoreSearchIndex ]_vars

\* C9 as stated: once a row click has set ignoreSearchIndex, it stays set
\* until the search text changes.
C9_SuspendedUntilSearchChange ==
    [][ (state.ignoreSearchIndex /\ props'.search = props.search)
            => state'.ignoreSearchIndex ]_vars

\* C9 as amended: once a row click has set ignoreSearchIndex, it stays set
\* until the search text changes or the search cursor moves; no filter, sort
\* or source change clears it.
C9_SuspendedUntilSearchOrCursorChange ==
    [][ (state.ignoreSearchIndex /\ props'.search = props.search
            /\ props'.searchIndex = props.searchIndex)
            => state'.ignoreSearchIndex ]_vars

\* Auto-scroll is still suspended after a props update that reran the
\* pipeline with a discriminating level filter
C9_Witness ==
    /\ state.ignoreSearchIndex
    /\ {"componentWillReceiveProps", "filter"} \subseteq stages

\* C10: whenever the record source is absent, sortedList and searchList are
\* empty.
C10_AbsentSourceShowsNothing ==
    props.logFile = NoFile => state.sortedList = <<>> /\ state.searchList = <<>>

----------------------------------------------------------------------------
(* Claims about the pipeline *)

\* The last handler ran the pipeline and the list it stored is what the
\* Filter stage left: no later stage has run.
FilterStageOutput ==
    /\ mounted
    /\ stages # {}
    /\ stages \cap {"search", "sort", "reverse", "throw"} = {}

\* The records of the list pass the filter and stand in the order of the store
PassesInOrder(list, filter, entries) ==
    /\ \A i \in 1..Len(list) : filter[list[i].level]
    /\ \A i \in 1..Len(list) : \E j \in 1..Len(entries) : list[i] = entries[j]
    /\ \A i, j \in 1..Len(list) : i < j => list[i].index < list[j].index

\* C12: for every record sequence and any level filter, all-enabled and
\* all-disabled included, every record the Filter stage leaves has its level
\* enabled in the filter, and the records left keep their relative order.
C12_FilterKeepsEnabledLevels ==
    FilterStageOutput
    => PassesInOrder(state.sortedList, props.levelFilter, store[props.logFile])

\* C12, amended: that holds for every level filter with at least one level
\* enabled; with the all-disabled filter the Filter stage does not run and
\* every record is left, although no level is enabled.
C12_FilterKeepsEnabledLevelsUnlessAllDisabled ==
    /\ (FilterStageOutput /\ \E level \in Levels : props.levelFilter[level])
       => PassesInOrder(state.sortedList, props.levelFilter, store[props.logFile])
    /\ (FilterStageOutput /\ \A level \in Levels : ~props.levelFilter[level])
       => state.sortedList = store[props.logFile]

C12_Witness ==
    /\ FilterStageOutput
    /\ "filter" \in stages
    /\ Discriminates(props.levelFilter)
    /\ Len(store[props.logFile]) = 2
    /\ Len(state.sortedList) = 1
    /\ state.sortedList[1].index = 1

\* C13: for a level filter that is all-enabled or all-disabled the Filter
\* stage is the identity: with the default sort and no search as a filter
\* the list is exactly the record sequence, in its order.
C13_NoFilteringIsIdentity ==
    ( /\ FilterStageOutput
      /\ ~Discriminates(props.levelFilter) )
    => /\ "filter" \notin stages
       /\ state.sortedList = store[props.logFile]

C13_Witness ==
    /\ FilterStageOutput
    /\ \A level \in Levels : ~props.levelFilter[level]
    /\ Len(store[props.logFile]) = 2
    /\ store[props.logFile][1].level # store[props.logFile][2].level
    /\ state.sortedList = store[props.logFile]

\* C14: whenever sortFilterList runs with sortBy index, ascending direction,
\* a level filter that does not discriminate and no search as a filter in
\* effect (the search text is empty or showOnlySearchResults is false), it
\* returns the log file's own logEntries array, and makes no copy.
C14_FastPathReturnsStoreSequence ==
    ( /\ mounted
      /\ stages # {}
      /\ state.sortBy = "index"
      /\ state.sortDirection = SORT_TYPES.ASC
      /\ ~Discriminates(props.levelFilter)
      /\ (props.search = <<>> \/ ~props.showOnlySearchResults) )
    => /\ "shared" \in stages
       /\ "copy" \notin stages
       /\ state.sortedList = store[props.logFile]

\* The list is ordered by non-decreasing comparison of the key
Ascending(list, sortBy) ==
    \A i, j \in 1..Len(list) :
        i < j => IF sortBy = "message"
                 THEN localeCompare(list[i].message, list[j].message) <= 0
                 ELSE LevelWeight(list[i].level) <= LevelWeight(list[j].level)

\* C15: for the keys message and level the list for the descending direction
\* is the exact reverse of the list for the ascending direction, and the
\* ascending list is ordered by non-decreasing comparison of the key;
\* messages ["b", "a", "c"] give ["a", "b", "c"] and ["c", "b", "a"].
C15_DescendingReversesAscending ==
    /\ [][ \A sortBy \in {"message", "level"} :
             ( /\ state.sortBy = sortBy
               /\ state.sortDirection = SORT_TYPES.ASC
               /\ onSortChange(sortBy, SORT_TYPES.DESC) )
             => state'.sortedList = Reverse(state.sortedList) ]_vars
    /\ [][ \A sortBy \in {"message", "level"} :
             ( /\ state.sortBy = sortBy
               /\ state.sortDirection = SORT_TYPES.DESC
               /\ onSortChange(sortBy, SORT_TYPES.ASC) )
             => state.sortedList = Reverse(state'.sortedList) ]_vars
    /\ [] ( ( /\ mounted
              /\ state.sortBy \in {"message", "level"}
              /\ state.sortDirection = SORT_TYPES.ASC )
            => Ascending(state.sortedList, state.sortBy) )
    /\ [] ( ( /\ mounted
              /\ store[props.logFile] = SortScenarioEntries
              /\ ~Discriminates(props.levelFilter)
              /\ props.search = <<>>
              /\ state.sortBy = "message" )
            => [i \in 1..3 |-> state.sortedList[i].message] =
                 IF state.sortDirection = SORT_TYPES.ASC
                 THEN << <<"a">>, <<"b">>, <<"c">> >>
                 ELSE << <<"c">>, <<"b">>, <<"a">> >> )

C15_Witness ==
    /\ mounted
    /\ store[props.logFile] = SortScenarioEntries
    /\ ~Discriminates(props.levelFilter)
    /\ props.search = <<>>
    /\ state.sortBy = "message"
    /\ state.sortDirection = SORT_TYPES.DESC
    /\ {"onSortChange", "sort", "reverse"} \subseteq stages
    /\ [i \in 1..3 |-> state.sortedList[i].message] = << <<"c">>, <<"b">>, <<"a">> >>

----------------------------------------------------------------------------
(* Claims about the displayed list, the record store and the rows *)

\* The records of the current log file
CurrentEntries == IF props.logFile = NoFile THEN <<>> ELSE store[props.logFile]

\* C17: in every state the displayed list holds only records of the current
\* log file's logEntries, each at most once, and each with the index it was
\* loaded with.
C17_DisplayHoldsCurrentRecords ==
    /\ \A i \in 1..Len(state.sortedList) :
           \E j \in 1..Len(CurrentEntries) :
               /\ state.sortedList[i] = CurrentEntries[j]
               /\ state.sortedList[i].index = j - 1
    /\ \A i, j \in 1..Len(state.sortedList) :
           i # j => state.sortedList[i] # state.sortedList[j]

\* C18: no handler changes the content or the order of a log file's
\* logEntries array, whatever the filter, search, sort key and direction:
\* sort and reverse work on a copy, also after the array itself was returned
\* as the displayed list.
C18_StoreIsNeverChanged == [][store' = store]_vars

C18_Witness ==
    /\ mounted
    /\ {"onSortChange", "copy", "sort", "reverse"} \subseteq stages
    /\ stages \cap {"filter", "search", "shared"} = {}
    /\ Len(state.sortedList) = 2
    /\ state.sortedList # store[props.logFile]
    /\ store = InitialStore

\* The rows of the table
Rows == 0..(Len(state.sortedList) - 1)

IsSelectedRow(rowIndex) == state.selectedIndex = rowIndex

\* The row is the match the search cursor stands on
IsActiveMatch(rowIndex) ==
    /\ props.searchIndex < Len(state.searchList)
    /\ state.searchList[props.searchIndex + 1] = rowIndex

IsMatch(rowIndex) ==
    \E i \in 1..Len(state.searchList) : state.searchList[i] = rowIndex

\* The three highlight states: selected before active match before the rest
HighlightState(rowIndex) ==
    IF IsSelectedRow(rowIndex) THEN "selected"
    ELSE IF ~state.ignoreSearchIndex /\ IsActiveMatch(rowIndex) THEN "active match"
    ELSE "other"

\* C19: for every row the className tells which of three mutually exclusive
\* highlight states the row is in: the selected row, the active search match,
\* or another match or none; a row that is both the selected row and the
\* active match counts as selected.
C19_ThreeExclusiveHighlightStates ==
    \A r1, r2 \in Rows :
        HighlightState(r1) # HighlightState(r2)
        => rowClassNameGetter(r1) # rowClassNameGetter(r2)

\* C19, amended: the three classNames are "ActiveRow" for the selected row
\* and for the active search match alike (the active match only while
\* ignoreSearchIndex is false), "HighlightRow" for any other match, and ""
\* for the rest; the selected row and the active match are not told apart.
C19_ActiveHighlightOrNone ==
    \A r \in Rows :
        /\ rowClassNameGetter(r) \in {"ActiveRow", "HighlightRow", ""}
        /\ rowClassNameGetter(r) = "ActiveRow"
           <=> ( \/ IsSelectedRow(r)
                 \/ ~state.ignoreSearchIndex /\ IsActiveMatch(r) )
        /\ rowClassNameGetter(r) = "HighlightRow"
           <=> ( /\ ~IsSelectedRow(r)
                 /\ state.ignoreSearchIndex \/ ~IsActiveMatch(r)
                 /\ IsMatch(r) )

C19_Witness ==
    /\ Len(state.sortedList) = 2
    /\ ~state.ignoreSearchIndex
    /\ IsSelectedRow(0) /\ ~IsActiveMatch(0)
    /\ IsActiveMatch(1)
    /\ rowClassNameGetter(0) = "ActiveRow"
    /\ rowClassNameGetter(1) = "ActiveRow"

\* C20: in every state in which showOnlySearchResults is true or the search
\* text is empty the list of match positions is empty.
C20_NoMatchListWithoutHighlighting ==
    (props.showOnlySearchResults \/ props.search = <<>>)
    => state.searchList = <<>>

C20_Witness ==
    /\ mounted
    /\ props.showOnlySearchResults
    /\ props.search = <<"a">>
    /\ {"componentWillReceiveProps", "search"} \subseteq stages
    /\ state.sortedList # <<>>
    /\ state.searchList = <<>>

\* C21: in every state in which a row is selected, selectedIndex is a
\* position of the displayed list and the record at that position is the
\* entry stored as the shared selectedEntry, also after a later filter,
\* search, source or sort change.
C21_SelectionDesignatesSelectedEntry ==
    state.selectedIndex # NoIndex
    => /\ state.selectedIndex < Len(state.sortedList)
       /\ state.sortedList[state.selectedIndex + 1] = sleuth.selectedEntry

----------------------------------------------------------------------------
(* Claims about the App *)

\* The url names an archive or a directory of the disk
Openable(url) ==
    \/ isZipFile(url) /\ stats(url) = "file"
    \/ ~isZipFile(url) /\ stats(url) = "directory"

\* The files opening the url yields
FilesOf(url) == IF isZipFile(url) THEN unzip(url) ELSE directoryFiles(url)

\* No message and no asynchronous operation is left
Settled == pending = {} /\ channel = <<>>

\* C22: after openFile(u1) and then openFile(u2), each for an archive or a
\* directory, and under every order in which unzip, stat and readdir
\* complete, the unzippedFiles are those of u2 once nothing is pending.
C22_LaterRequestWins ==
    ( /\ Len(calls) = 2
      /\ Openable(calls[1]) /\ Openable(calls[2])
      /\ Settled )
    => unzippedFiles = FilesOf(calls[2])

\* C23: handling the 'file-dropped' message of a 'will-navigate' event whose
\* url does not start with 'file:///' leaves the unzippedFiles and the shared
\* state as they were.
C23_ExternalLinkKeepsOpenedFiles ==
    [][ ( /\ channel # <<>>
          /\ ~startsWithFile(Head(channel).navigated)
          /\ FileDropped )
        => /\ unzippedFiles' = unzippedFiles
           /\ sleuth' = sleuth
           /\ opened' = opened ]_vars

TypeOK ==
    /\ [props EXCEPT !.search = <<>>] \in PropsSet
    /\ props.search \in TypedSearchTexts
    /\ mounted \in BOOLEAN
    /\ state.sortBy \in SortKeys

====
